---- MODULE Spec2Model ----
(***************************************************************************)
(* Radiolink DICOM pipeline: the C-STORE handler (handle_store with        *)
(* insert_proc and append_to_zip), the quiescence monitor                  *)
(* (check_patient_updates), the dispatcher (upload_patient_data with       *)
(* send_to_server) and the server (re)start of main.py, as one state       *)
(* machine over the module globals patient_queue and patient_zip_files,    *)
(* the procs table of radiolink.db and the files on disk.                  *)
(*                                                                         *)
(* Time.  The program reads the clock in two places only: last_update is   *)
(* set to datetime.now() by append_to_zip, and check_patient_updates       *)
(* compares current_time - last_update with one minute.  The model keeps   *)
(* each entry's age, now - last_update, in seconds, instead of the two     *)
(* absolute values; Tick(d) lets d seconds pass.  Ages above the threshold *)
(* are all treated alike by the program and are kept as Threshold + 1.     *)
(* A snapshot entry of a scan holds current_time - last_update of the dict *)
(* object the scan captured, which no later append changes (append_to_zip  *)
(* replaces the dict object, it does not update it).                       *)
(*                                                                         *)
(* Process exit.  The monitor and the handlers run in daemon threads; when  *)
(* the application is closed they stop at whatever statement they are, the *)
(* module globals are lost, radiolink.db and the files on disk remain.     *)
(*                                                                         *)
(* Not modelled: patient_files (written by handle_store, never read), the  *)
(* session's updated_at (never read) and the clinical pass-through fields. *)
(***************************************************************************)
EXTENDS Integers, Sequences, FiniteSets, TLC

\* ------------------------------------------------------------- bounds
MaxFiles == 3
MaxAttempts == 3
MaxRestartFiles == 2
MaxFaultyFiles == 2
MaxCheckedFiles == 2

Patients == {"A", "B"}
Files == 1..MaxFiles
HandlerIds == {"h1", "h2"}
MonitorIds == {"m1", "m2"}

\* ------------------------------------------------- program constants
Threshold == 60
PollInterval == 60
StatusSuccess == 0
StatusFailure == 42754
PctUploading == 75
PctUploaded == 100
HttpOk == 200

NoRow == [images |-> 0, status |-> "none", pct |-> 0]
NoFile == {0}
NoRef == 0

VARIABLES
  procs,              \* radiolink.db, table procs: patient id -> row or NoRow
  patient_queue,      \* sequence of sessions [patient_id, images, oid]
  patient_zip_files,  \* insertion-ordered dict: sequence of [patient_id, age]
  zip_disk,           \* zip_files/<id>.zip: NoFile or the set of files in it
  zip_dir,            \* the directory zip_files exists
  dicom_files,        \* source files present under dicom_files/
  nextFile,           \* the next arriving file
  hs,                 \* C-STORE handler threads
  mon,                \* check_patient_updates threads
  accepted,           \* history: files in an upload the endpoint answered 2xx
  duplicated,         \* history: files in two such uploads
  appended,           \* history: files written into an archive
  arrived,            \* history: the patient each received file belongs to
  attempts            \* history: upload requests sent per patient

vars == <<procs, patient_queue, patient_zip_files, zip_disk, zip_dir, dicom_files,
          nextFile, hs, mon, accepted, duplicated, appended, arrived,
          attempts>>

Max(a, b) == IF a > b THEN a ELSE b

Min(a, b) == IF a < b THEN a ELSE b

\* ----------------------------------------------------------- db.py
\* insert_proc without the UPDATE of an existing row
insert_proc_no_update(t, p) ==
  IF t[p] = NoRow
    THEN [t EXCEPT ![p] = [images |-> 1, status |-> "pending", pct |-> 0]]
    ELSE t

insert_proc(t, p) ==
  IF t[p] = NoRow
    THEN [t EXCEPT ![p] = [images |-> 1, status |-> "pending", pct |-> 0]]
    ELSE [t EXCEPT ![p].images = @ + 1]

\* update_proc_status as an upsert: a missing row is created
update_proc_status_upsert(t, p, s) ==
  IF t[p] = NoRow THEN [t EXCEPT ![p] = [images |-> 0, status |-> s, pct |-> 0]]
                  ELSE [t EXCEPT ![p].status = s]

update_proc_status(t, p, s) ==
  IF t[p] = NoRow THEN t ELSE [t EXCEPT ![p].status = s]

update_proc_uploading_percentage(t, p, k) ==
  IF t[p] = NoRow THEN t ELSE [t EXCEPT ![p].pct = k]

\* ------------------------------------------------- registry helpers
SessionIdx(q, p) == {i \in 1..Len(q) : q[i].patient_id = p}

HasSession(q, p) == SessionIdx(q, p) # {}

\* get_patient_by_id: the first session of the patient
FirstIdx(q, p) == CHOOSE i \in SessionIdx(q, p) : \A j \in SessionIdx(q, p) : i <= j

get_patient_by_id(q, p) == IF HasSession(q, p) THEN q[FirstIdx(q, p)].oid ELSE NoRef

RemoveAt(q, i) == [j \in 1..(Len(q) - 1) |-> IF j < i THEN q[j] ELSE q[j + 1]]

ZipIdx(z, p) == {i \in 1..Len(z) : z[i].patient_id = p}

HasZip(z, p) == ZipIdx(z, p) # {}

ZipAge(z, p) == z[CHOOSE i \in ZipIdx(z, p) : TRUE].age

\* patient_zip_files[patient_id] = {...}: an existing key keeps its place
ZipPut(z, p) ==
  IF HasZip(z, p)
    THEN [i \in 1..Len(z) |-> IF z[i].patient_id = p THEN [z[i] EXCEPT !.age = 0] ELSE z[i]]
    ELSE Append(z, [patient_id |-> p, age |-> 0])

ZipDel(z, p) == RemoveAt(z, CHOOSE i \in ZipIdx(z, p) : TRUE)

Saturate(a) == IF a > Threshold THEN Threshold + 1 ELSE a

\* ------------------------------------------------------ handle_store
\* A C-STORE request for patient p arrives on handler thread h: the dataset
\* is saved under dicom_files/ and verified.
HandleStore(h, p) ==
  /\ hs[h].pc = "idle"
  /\ nextFile <= MaxFiles
  /\ hs' = [hs EXCEPT ![h] = [pc |-> "insert_proc", pid |-> p, file |-> nextFile,
                              ret |-> "none", found |-> FALSE, ref |-> NoRef,
                              img |-> 0, snap |-> {}, name |-> "DOE"]]
  /\ dicom_files' = dicom_files \cup {nextFile}
  /\ nextFile' = nextFile + 1
  /\ arrived' = [arrived EXCEPT ![nextFile] = p]
  /\ UNCHANGED <<procs, patient_queue, patient_zip_files, zip_disk, zip_dir, mon,
                 accepted, duplicated, appended, attempts>>

InsertProc(h) ==
  /\ hs[h].pc = "insert_proc"
  /\ procs' = insert_proc(procs, hs[h].pid)
  /\ hs' = [hs EXCEPT ![h].pc = "percentage"]
  /\ UNCHANGED <<patient_queue, patient_zip_files, zip_disk, dicom_files,
                 nextFile, zip_dir, mon, accepted, duplicated, appended, arrived, attempts>>

InitialPercentage(h) ==
  /\ hs[h].pc = "percentage"
  /\ procs' = update_proc_uploading_percentage(procs, hs[h].pid, 0)
  /\ hs' = [hs EXCEPT ![h].pc = "zip_dir"]
  /\ UNCHANGED <<patient_queue, patient_zip_files, zip_disk, dicom_files,
                 nextFile, zip_dir, mon, accepted, duplicated, appended, arrived, attempts>>

\* append_to_zip, os.path.exists(ZIP_FILE_DIR)
DirCheck(h) ==
  /\ hs[h].pc = "zip_dir"
  /\ hs' = [hs EXCEPT ![h].pc = IF zip_dir THEN "append_to_zip" ELSE "makedirs"]
  /\ UNCHANGED <<procs, patient_queue, patient_zip_files, zip_disk, zip_dir,
                 dicom_files, nextFile, mon, accepted, duplicated, appended,
                 arrived, attempts>>

\* append_to_zip, os.makedirs(ZIP_FILE_DIR): raises FileExistsError when the
\* directory was created since the check, which ends in the except branch
MakeDirs(h) ==
  /\ hs[h].pc = "makedirs"
  /\ IF zip_dir
       THEN /\ procs' = update_proc_status(procs, hs[h].pid, "pending")
            /\ hs' = [hs EXCEPT ![h].pc = "session"]
            /\ UNCHANGED zip_dir
       ELSE /\ zip_dir' = TRUE
            /\ hs' = [hs EXCEPT ![h].pc = "append_to_zip"]
            /\ UNCHANGED procs
  /\ UNCHANGED <<patient_queue, patient_zip_files, zip_disk, dicom_files,
                 nextFile, mon, accepted, duplicated, appended, arrived,
                 attempts>>

\* append_to_zip, the write: the file goes into the archive (created when
\* absent) and the source file is removed.
ZipWrite(z, p, f) ==
  [z EXCEPT ![p] = (IF @ = NoFile THEN {} ELSE @) \cup {f}]

AppendWrite(h) ==
  /\ hs[h].pc = "append_to_zip"
  /\ zip_disk' = ZipWrite(zip_disk, hs[h].pid, hs[h].file)
  /\ dicom_files' = dicom_files \ {hs[h].file}
  /\ appended' = appended \cup {hs[h].file}
  /\ hs' = [hs EXCEPT ![h].pc = "track"]
  /\ UNCHANGED <<procs, patient_queue, patient_zip_files, nextFile, zip_dir, mon,
                 accepted, duplicated, arrived, attempts>>

\* append_to_zip, the I/O error: logged, status set to pending, and the
\* function returns normally to handle_store.
AfterAppendError(h) == "session"

AppendError(h) ==
  /\ hs[h].pc = "append_to_zip"
  /\ procs' = update_proc_status(procs, hs[h].pid, "pending")
  /\ hs' = [hs EXCEPT ![h].pc = AfterAppendError(h)]
  /\ UNCHANGED <<patient_queue, patient_zip_files, zip_disk, dicom_files,
                 nextFile, zip_dir, mon, accepted, duplicated, appended, arrived, attempts>>

\* the tracking update waiting for a lock that a scan holds until it ends
TrackAfterScan(h) ==
  /\ \A m \in MonitorIds : mon[m].pc \in {"off", "sleep", "exited"}
  /\ hs[h].pc = "track"
  /\ patient_zip_files' = ZipPut(patient_zip_files, hs[h].pid)
  /\ hs' = [hs EXCEPT ![h].pc = "session"]
  /\ UNCHANGED <<procs, patient_queue, zip_disk, dicom_files, nextFile, zip_dir,
                 mon, accepted, duplicated, appended, arrived, attempts>>

\* append_to_zip, the tracking update
Track(h) ==
  /\ hs[h].pc = "track"
  /\ patient_zip_files' = ZipPut(patient_zip_files, hs[h].pid)
  /\ hs' = [hs EXCEPT ![h].pc = "session"]
  /\ UNCHANGED <<procs, patient_queue, zip_disk, dicom_files, nextFile, zip_dir, mon,
                 accepted, duplicated, appended, arrived, attempts>>

\* the session upsert of handle_store and its return value
Upsert(q, p, f) ==
  IF HasSession(q, p)
    THEN [q EXCEPT ![FirstIdx(q, p)].images = @ + 1]
    ELSE Append(q, [patient_id |-> p, images |-> 1, oid |-> f])

SessionUpsert(h) ==
  /\ hs[h].pc = "session"
  /\ patient_queue' = Upsert(patient_queue, hs[h].pid, hs[h].file)
  /\ hs' = [hs EXCEPT ![h].pc = "idle", ![h].ret = StatusSuccess]
  /\ UNCHANGED <<procs, patient_zip_files, zip_disk, dicom_files, nextFile, zip_dir,
                 mon, accepted, duplicated, appended, arrived, attempts>>

Handler(h, P) ==
  \/ \E p \in P : HandleStore(h, p)
  \/ InsertProc(h)
  \/ InitialPercentage(h)
  \/ DirCheck(h)
  \/ MakeDirs(h)
  \/ AppendWrite(h)
  \/ AppendError(h)
  \/ Track(h)
  \/ SessionUpsert(h)

\* ------------------------------- handle_store, statement by statement
\* The steps of one arrival at which another handler thread can run: the
\* two statements of insert_proc, the opening and the closing of the
\* archive, and the look-up, read and write of the session upsert.

\* insert_proc, SELECT images FROM procs WHERE patient_id = ?
SelectProc(h) ==
  /\ hs[h].pc = "insert_proc"
  /\ hs' = [hs EXCEPT ![h].found = (procs[hs[h].pid] # NoRow),
                      ![h].pc = "insert_write"]
  /\ UNCHANGED <<procs, patient_queue, patient_zip_files, zip_disk, zip_dir,
                 dicom_files, nextFile, mon, accepted, duplicated, appended,
                 arrived, attempts>>

\* insert_proc, the UPDATE or the INSERT chosen by the SELECT. An INSERT of
\* a patient_id that is in the table by now violates the UNIQUE constraint:
\* sqlite3.IntegrityError is re-raised and handle_store returns 0xA702.
WriteProc(h) ==
  LET p == hs[h].pid IN
  /\ hs[h].pc = "insert_write"
  /\ IF hs[h].found
       THEN /\ procs' = IF procs[p] = NoRow THEN procs
                        ELSE [procs EXCEPT ![p].images = @ + 1]
            /\ hs' = [hs EXCEPT ![h].pc = "percentage"]
       ELSE IF procs[p] = NoRow
         THEN /\ procs' = [procs EXCEPT ![p] = [images |-> 1, status |-> "pending",
                                                pct |-> 0]]
              /\ hs' = [hs EXCEPT ![h].pc = "percentage"]
         ELSE /\ hs' = [hs EXCEPT ![h].pc = "idle", ![h].ret = StatusFailure]
              /\ UNCHANGED procs
  /\ UNCHANGED <<patient_queue, patient_zip_files, zip_disk, zip_dir,
                 dicom_files, nextFile, mon, accepted, duplicated, appended,
                 arrived, attempts>>

\* append_to_zip, zipfile.ZipFile(path, mode): the archive's directory is
\* read into the ZipFile object (mode 'a'), or the archive starts empty
\* (mode 'w')
ZipOpen(h) ==
  /\ hs[h].pc = "append_to_zip"
  /\ hs' = [hs EXCEPT ![h].snap = IF zip_disk[hs[h].pid] = NoFile THEN {}
                                  ELSE zip_disk[hs[h].pid],
                      ![h].pc = "zip_close"]
  /\ UNCHANGED <<procs, patient_queue, patient_zip_files, zip_disk, zip_dir,
                 dicom_files, nextFile, mon, accepted, duplicated, appended,
                 arrived, attempts>>

\* append_to_zip, zip_file.write, os.remove and the end of the with block:
\* the member is written after the members read at opening and the
\* directory of this ZipFile object replaces the one on disk
ZipClose(h) ==
  /\ hs[h].pc = "zip_close"
  /\ zip_disk' = [zip_disk EXCEPT ![hs[h].pid] = hs[h].snap \cup {hs[h].file}]
  /\ dicom_files' = dicom_files \ {hs[h].file}
  /\ appended' = appended \cup {hs[h].file}
  /\ hs' = [hs EXCEPT ![h].pc = "track"]
  /\ UNCHANGED <<procs, patient_queue, patient_zip_files, nextFile, zip_dir, mon,
                 accepted, duplicated, arrived, attempts>>

OidIdx(q, r) == {i \in 1..Len(q) : q[i].oid = r}

\* handle_store, patient = get_patient_by_id(...) and the test of it
SessionLookup(h) ==
  LET r == get_patient_by_id(patient_queue, hs[h].pid) IN
  /\ hs[h].pc = "session"
  /\ hs' = [hs EXCEPT ![h].ref = r,
                      ![h].pc = IF r = NoRef THEN "session_append"
                                ELSE "session_read"]
  /\ UNCHANGED <<procs, patient_queue, patient_zip_files, zip_disk, zip_dir,
                 dicom_files, nextFile, mon, accepted, duplicated, appended,
                 arrived, attempts>>

\* handle_store, patient_queue.append({...}) and return 0x0000
SessionAppend(h) ==
  /\ hs[h].pc = "session_append"
  /\ patient_queue' = Append(patient_queue, [patient_id |-> hs[h].pid, images |-> 1,
                                             oid |-> hs[h].file])
  /\ hs' = [hs EXCEPT ![h].pc = "idle", ![h].ret = StatusSuccess]
  /\ UNCHANGED <<procs, patient_zip_files, zip_disk, dicom_files, nextFile, zip_dir,
                 mon, accepted, duplicated, appended, arrived, attempts>>

\* handle_store, patient["images"] += 1: the read of the item
SessionRead(h) ==
  /\ hs[h].pc = "session_read"
  /\ hs' = [hs EXCEPT ![h].img = IF OidIdx(patient_queue, hs[h].ref) = {} THEN 0
                                 ELSE patient_queue[CHOOSE i \in OidIdx(patient_queue, hs[h].ref) : TRUE].images,
                      ![h].pc = "session_store"]
  /\ UNCHANGED <<procs, patient_queue, patient_zip_files, zip_disk, zip_dir,
                 dicom_files, nextFile, mon, accepted, duplicated, appended,
                 arrived, attempts>>

\* handle_store, patient["images"] += 1: the store of the item, and
\* return 0x0000
SessionStore(h) ==
  /\ hs[h].pc = "session_store"
  /\ patient_queue' = [i \in 1..Len(patient_queue) |->
                         IF patient_queue[i].oid = hs[h].ref
                           THEN [patient_queue[i] EXCEPT !.images = hs[h].img + 1]
                           ELSE patient_queue[i]]
  /\ hs' = [hs EXCEPT ![h].pc = "idle", ![h].ret = StatusSuccess]
  /\ UNCHANGED <<procs, patient_zip_files, zip_disk, dicom_files, nextFile, zip_dir,
                 mon, accepted, duplicated, appended, arrived, attempts>>

\* ------------------------------ handle_store, any PatientID and name
\* The PatientID and PatientName of a dataset as handle_store passes them
\* to insert_proc: str(ds.PatientID), str(ds.PatientName), either of which
\* can be the empty string.
PatientIds == Patients \cup {""}

PatientNames == {"", "DOE"}

\* A C-STORE request with PatientID p and PatientName n: the dataset is
\* saved under dicom_files/ and verified, whatever p and n are.
HandleStoreAny(h, p, n) ==
  /\ hs[h].pc = "idle"
  /\ nextFile <= MaxFiles
  /\ hs' = [hs EXCEPT ![h] = [pc |-> "insert_proc", pid |-> p, file |-> nextFile,
                              ret |-> "none", found |-> FALSE, ref |-> NoRef,
                              img |-> 0, snap |-> {}, name |-> n]]
  /\ dicom_files' = dicom_files \cup {nextFile}
  /\ nextFile' = nextFile + 1
  /\ arrived' = [arrived EXCEPT ![nextFile] = p]
  /\ UNCHANGED <<procs, patient_queue, patient_zip_files, zip_disk, zip_dir, mon,
                 accepted, duplicated, appended, attempts>>

\* insert_proc rejecting every arrival with an empty PatientID only
RequiredMissingIdOnly(p, n) == p = ""

\* insert_proc, if not patient_id or not patient_name
RequiredMissing(p, n) == p = "" \/ n = ""

\* insert_proc with its argument check: ValueError is raised before the
\* connection is opened and handle_store returns 0xA702 from its except
\* clause; otherwise the row is inserted or updated.
InsertProcChecked(h) ==
  /\ hs[h].pc = "insert_proc"
  /\ IF RequiredMissing(hs[h].pid, hs[h].name)
       THEN /\ hs' = [hs EXCEPT ![h].pc = "idle", ![h].ret = StatusFailure]
            /\ UNCHANGED procs
       ELSE /\ procs' = insert_proc(procs, hs[h].pid)
            /\ hs' = [hs EXCEPT ![h].pc = "percentage"]
  /\ UNCHANGED <<patient_queue, patient_zip_files, zip_disk, dicom_files,
                 nextFile, zip_dir, mon, accepted, duplicated, appended, arrived, attempts>>

\* ------------------------------------------------- send_to_server
StatusCodes == {200, 204, 304, 404, 500}

Outcomes ==
  {[kind |-> "response", code |-> c] : c \in StatusCodes}
    \cup {[kind |-> "timeout", code |-> 0], [kind |-> "connection", code |-> 0]}

\* the endpoint took the upload: a 2xx response
RemoteAccepts(o) == o.kind = "response" /\ o.code >= 200 /\ o.code <= 299

\* raise_for_status raises for 4xx and 5xx
RaisesForStatus(o) == o.kind = "response" /\ o.code >= 400 /\ o.code <= 599

\* the value send_to_server returns once the request has an outcome
send_to_server(o) ==
  IF o.kind # "response" \/ RaisesForStatus(o) THEN FALSE ELSE o.code = HttpOk

\* ------------------------------------------- check_patient_updates
\* main.start_dicom_server: a running future is not cancelled by
\* cancel(); dicom_server runs again and starts one more monitor thread.
StartDicomServer(m) ==
  /\ mon[m].pc = "off"
  /\ mon' = [mon EXCEPT ![m].pc = "sleep"]
  /\ UNCHANGED <<procs, patient_queue, patient_zip_files, zip_disk, dicom_files,
                 nextFile, zip_dir, hs, accepted, duplicated, appended, arrived, attempts>>

\* current_time = now; list(patient_zip_files.items())
Scan(m) ==
  /\ mon[m].pc = "sleep"
  /\ mon[m].sleep = 0
  /\ mon' = [mon EXCEPT ![m].pc = "loop", ![m].todo = patient_zip_files,
                        ![m].since = 0]
  /\ UNCHANGED <<procs, patient_queue, patient_zip_files, zip_disk, dicom_files,
                 nextFile, zip_dir, hs, accepted, duplicated, appended, arrived, attempts>>

\* the comparison with >= in place of >
IdleInclusive(e) == e.age >= Threshold

\* a comparison that never selects
IdleNever(e) == FALSE

\* (current_time - zip_info["last_update"]) > timedelta(minutes=1)
Idle(e) == e.age > Threshold

\* one turn of the for loop, or time.sleep(60) at its end
Loop(m) ==
  /\ mon[m].pc = "loop"
  /\ LET me == mon[m] IN
     mon' = [mon EXCEPT ![m] =
       IF me.todo = <<>>
         THEN [me EXCEPT !.pc = "sleep", !.sleep = PollInterval]
         ELSE IF Idle(Head(me.todo))
           THEN [me EXCEPT !.pc = "upload", !.pid = Head(me.todo).patient_id,
                           !.todo = Tail(me.todo), !.acc = FALSE, !.sent = {},
                           !.ref = NoRef]
           ELSE [me EXCEPT !.todo = Tail(me.todo)]]
  /\ UNCHANGED <<procs, patient_queue, patient_zip_files, zip_disk, dicom_files,
                 nextFile, zip_dir, hs, accepted, duplicated, appended, arrived, attempts>>

\* --------------------------------------------- upload_patient_data
\* the existence check without the look-up in patient_zip_files
PassesCheckSessionOnly(q, z, p) == HasSession(q, p)

\* the existence check: the session and the archive entry
PassesCheck(q, z, p) == HasSession(q, p) /\ HasZip(z, p)

UploadCheck(m) ==
  /\ mon[m].pc = "upload"
  /\ LET me == mon[m] IN
     mon' = [mon EXCEPT ![m] =
       IF PassesCheck(patient_queue, patient_zip_files, me.pid)
         THEN [me EXCEPT !.pc = "status_uploading",
                         !.ref = get_patient_by_id(patient_queue, me.pid)]
         ELSE [me EXCEPT !.pc = "loop"]]
  /\ UNCHANGED <<procs, patient_queue, patient_zip_files, zip_disk, dicom_files,
                 nextFile, zip_dir, hs, accepted, duplicated, appended, arrived, attempts>>

\* a store update of the dispatcher, then the next place in the function
StoreStep(m, from, t, to) ==
  /\ mon[m].pc = from
  /\ procs' = t
  /\ mon' = [mon EXCEPT ![m].pc = to]
  /\ UNCHANGED <<patient_queue, patient_zip_files, zip_disk, dicom_files,
                 nextFile, zip_dir, hs, accepted, duplicated, appended, arrived, attempts>>

StatusUploading(m) ==
  StoreStep(m, "status_uploading",
            update_proc_status(procs, mon[m].pid, "uploading"), "pct_uploading")

PercentageUploading(m) ==
  StoreStep(m, "pct_uploading",
            update_proc_uploading_percentage(procs, mon[m].pid, PctUploading), "send")

\* send_to_server opens the archive and posts it; a missing file raises
\* out of send_to_server into the handler of upload_patient_data
Send(m, count) ==
  /\ mon[m].pc = "send"
  /\ count => attempts[mon[m].pid] < MaxAttempts
  /\ LET me == mon[m] IN
     mon' = [mon EXCEPT ![m] =
       IF zip_disk[me.pid] = NoFile
         THEN [me EXCEPT !.pc = "error_status"]
         ELSE [me EXCEPT !.pc = "wait", !.sent = zip_disk[me.pid]]]
  /\ attempts' = IF count /\ zip_disk[mon[m].pid] # NoFile
                   THEN [attempts EXCEPT ![mon[m].pid] = @ + 1]
                   ELSE attempts
  /\ UNCHANGED <<procs, patient_queue, patient_zip_files, zip_disk, dicom_files,
                 nextFile, zip_dir, hs, accepted, duplicated, appended, arrived>>

\* the clean up branch taken whatever send_to_server returned
AfterSendCleansUp(result) == "status_uploaded"

\* the request ends with outcome o
AfterSend(result) == IF result THEN "status_uploaded" ELSE "failed_status"

Respond(m, o) ==
  /\ mon[m].pc = "wait"
  /\ mon' = [mon EXCEPT ![m].pc = AfterSend(send_to_server(o)),
                        ![m].acc = RemoteAccepts(o)]
  /\ accepted' = IF RemoteAccepts(o) THEN accepted \cup mon[m].sent ELSE accepted
  /\ duplicated' = IF RemoteAccepts(o)
                     THEN duplicated \cup (accepted \cap mon[m].sent)
                     ELSE duplicated
  /\ UNCHANGED <<procs, patient_queue, patient_zip_files, zip_disk, dicom_files,
                 nextFile, zip_dir, hs, appended, arrived, attempts>>

StatusUploaded(m) ==
  StoreStep(m, "status_uploaded",
            update_proc_status(procs, mon[m].pid, "uploaded"), "pct_uploaded")

PercentageUploaded(m) ==
  StoreStep(m, "pct_uploaded",
            update_proc_uploading_percentage(procs, mon[m].pid, PctUploaded), "cleanup")

\* the clean up: patient_queue.remove(patient_data), os.remove of the
\* archive, del patient_zip_files[patient_id]; remove raises when the
\* session object is no longer in the list, del when the key is gone
RefIdx(q, r) == {i \in 1..Len(q) : q[i].oid = r}

QueueRemove(q, r) == RemoveAt(q, CHOOSE i \in RefIdx(q, r) : \A j \in RefIdx(q, r) : i <= j)

Cleanup(m) ==
  /\ mon[m].pc = "cleanup"
  /\ IF RefIdx(patient_queue, mon[m].ref) = {}
       THEN /\ mon' = [mon EXCEPT ![m].pc = "error_status"]
            /\ UNCHANGED <<patient_queue, zip_disk, patient_zip_files>>
       ELSE /\ patient_queue' = QueueRemove(patient_queue, mon[m].ref)
            /\ zip_disk' = [zip_disk EXCEPT ![mon[m].pid] = NoFile]
            /\ IF HasZip(patient_zip_files, mon[m].pid)
                 THEN /\ patient_zip_files' = ZipDel(patient_zip_files, mon[m].pid)
                      /\ mon' = [mon EXCEPT ![m].pc = "loop"]
                 ELSE /\ UNCHANGED patient_zip_files
                      /\ mon' = [mon EXCEPT ![m].pc = "error_status"]
  /\ UNCHANGED <<procs, dicom_files, nextFile, zip_dir, hs, accepted, duplicated, appended, arrived,
                 attempts>>

\* send_to_server returned False
FailedStatus(m) ==
  StoreStep(m, "failed_status",
            update_proc_status(procs, mon[m].pid, "pending"), "failed_pct")

FailedPercentage(m) ==
  StoreStep(m, "failed_pct",
            update_proc_uploading_percentage(procs, mon[m].pid, 0), "loop")

\* the except Exception handler
ErrorStatus(m) ==
  StoreStep(m, "error_status",
            update_proc_status(procs, mon[m].pid, "pending"), "error_pct")

ErrorPercentage(m) ==
  StoreStep(m, "error_pct",
            update_proc_uploading_percentage(procs, mon[m].pid, 0), "loop")

Upload(m) ==
  \/ UploadCheck(m)
  \/ StatusUploading(m)
  \/ PercentageUploading(m)
  \/ StatusUploaded(m)
  \/ PercentageUploaded(m)
  \/ Cleanup(m)
  \/ FailedStatus(m)
  \/ FailedPercentage(m)
  \/ ErrorStatus(m)
  \/ ErrorPercentage(m)

Monitor(m) == Scan(m) \/ Loop(m) \/ Upload(m)

\* ---------------------------------------------------- store errors
\* A store update of the dispatcher raises sqlite3.Error (the database is
\* locked or unavailable).  Inside the try block of upload_patient_data the
\* error is caught by except Exception; inside that handler only
\* ValueError is caught, so the error leaves upload_patient_data and the
\* for loop and arrives at the except clause of check_patient_updates.
StoreWrites == {"status_uploading", "pct_uploading", "status_uploaded",
                "pct_uploaded", "failed_status", "failed_pct"}

HandlerWrites == {"error_status", "error_pct"}

StoreError(m) ==
  /\ mon[m].pc \in StoreWrites \cup HandlerWrites
  /\ mon' = [mon EXCEPT ![m].pc = IF mon[m].pc \in StoreWrites
                                    THEN "error_status" ELSE "except"]
  /\ UNCHANGED <<procs, patient_queue, patient_zip_files, zip_disk, zip_dir,
                 dicom_files, nextFile, hs, accepted, duplicated, appended,
                 arrived, attempts>>

\* the except clause leaving the while loop
LogErrorAndStop(m) ==
  /\ mon[m].pc = "except"
  /\ mon' = [mon EXCEPT ![m].pc = "off", ![m].todo = <<>>]
  /\ UNCHANGED <<procs, patient_queue, patient_zip_files, zip_disk, zip_dir,
                 dicom_files, nextFile, hs, accepted, duplicated, appended,
                 arrived, attempts>>

\* the clean up, os.remove of the archive raises OSError (the file is in
\* use or not removable): the session is already removed from
\* patient_queue, the archive and its entry stay, and the error goes to the
\* except handler of upload_patient_data
CleanupError(m) ==
  /\ mon[m].pc = "cleanup"
  /\ RefIdx(patient_queue, mon[m].ref) # {}
  /\ zip_disk[mon[m].pid] # NoFile
  /\ patient_queue' = QueueRemove(patient_queue, mon[m].ref)
  /\ mon' = [mon EXCEPT ![m].pc = "error_status"]
  /\ UNCHANGED <<procs, patient_zip_files, zip_disk, zip_dir, dicom_files,
                 nextFile, hs, accepted, duplicated, appended, arrived,
                 attempts>>

\* check_patient_updates, except Exception: the error is logged and the
\* while loop starts its next iteration; time.sleep(60) is skipped
LogError(m) ==
  /\ mon[m].pc = "except"
  /\ mon' = [mon EXCEPT ![m].pc = "sleep", ![m].todo = <<>>]
  /\ UNCHANGED <<procs, patient_queue, patient_zip_files, zip_disk, zip_dir,
                 dicom_files, nextFile, hs, accepted, duplicated, appended,
                 arrived, attempts>>

\* ----------------------------------------------------------- time
\* d seconds pass
Tick(d) ==
  /\ patient_zip_files' =
       [i \in 1..Len(patient_zip_files) |->
          [patient_zip_files[i] EXCEPT !.age = Saturate(@ + d)]]
  /\ mon' = [m \in MonitorIds |->
               [mon[m] EXCEPT !.sleep = Max(0, @ - d),
                              !.since = Min(PollInterval, @ + d)]]
  /\ UNCHANGED <<procs, patient_queue, zip_disk, dicom_files, nextFile, zip_dir, hs,
                 accepted, duplicated, appended, arrived, attempts>>

\* ---------------------------------------------------- process exit
\* The application window is closed and the interpreter exits: the monitor
\* and handler threads are daemon threads and stop wherever they are, the
\* module globals are gone, radiolink.db and the files on disk stay.
ProcessExit ==
  /\ \E m \in MonitorIds : mon[m].pc # "exited"
  /\ mon' = [m \in MonitorIds |-> [mon[m] EXCEPT !.pc = "exited"]]
  /\ hs' = [h \in HandlerIds |-> [hs[h] EXCEPT !.pc = "exited"]]
  /\ patient_queue' = <<>>
  /\ patient_zip_files' = <<>>
  /\ UNCHANGED <<procs, zip_disk, zip_dir, dicom_files, nextFile, accepted,
                 duplicated, appended, arrived, attempts>>

\* ------------------------------------------------------------- Init
IdleHandler == [pc |-> "idle", pid |-> "A", file |-> 0, ret |-> "none",
                found |-> FALSE, ref |-> NoRef, img |-> 0, snap |-> {},
                name |-> "DOE"]

OffMonitor == [pc |-> "off", todo |-> <<>>, pid |-> "A", ref |-> NoRef,
               sent |-> {}, sleep |-> 0, acc |-> FALSE, since |-> PollInterval]

Init ==
  /\ procs = [p \in Patients |-> NoRow]
  /\ patient_queue = <<>>
  /\ patient_zip_files = <<>>
  /\ zip_disk = [p \in Patients |-> NoFile]
  /\ zip_dir = FALSE
  /\ dicom_files = {}
  /\ nextFile = 1
  /\ hs = [h \in HandlerIds |-> IdleHandler]
  /\ mon = [m \in MonitorIds |-> IF m = "m1" THEN [OffMonitor EXCEPT !.pc = "sleep"]
                                             ELSE OffMonitor]
  /\ accepted = {}
  /\ duplicated = {}
  /\ appended = {}
  /\ arrived = [f \in Files |-> "none"]
  /\ attempts = [p \in Patients |-> 0]

\* The pipeline: one handler thread and the monitor started at import,
\* time passing a poll interval at a time
Next ==
  \/ Handler("h1", Patients)
  \/ Monitor("m1")
  \/ Send("m1", FALSE)
  \/ \E o \in Outcomes : Respond("m1", o)
  \/ Tick(PollInterval)

Spec == Init /\ [][Next]_vars

\* Arrivals handled one after another, no monitor running
NextArrivals == Handler("h1", Patients)

SpecArrivals == Init /\ [][NextArrivals]_vars

\* Restarts: main.start_dicom_server runs again (settings saved, login)
\* and a second monitor thread scans the same globals, while up to
\* MaxRestartFiles files of one patient arrive
NextRestart ==
  \/ nextFile <= MaxRestartFiles /\ HandleStore("h1", "A")
  \/ InsertProc("h1")
  \/ InitialPercentage("h1")
  \/ DirCheck("h1")
  \/ MakeDirs("h1")
  \/ AppendWrite("h1")
  \/ AppendError("h1")
  \/ Track("h1")
  \/ SessionUpsert("h1")
  \/ \E m \in MonitorIds :
        \/ StartDicomServer(m)
        \/ Monitor(m)
        \/ Send(m, FALSE)
        \/ \E o \in Outcomes : Respond(m, o)
  \/ Tick(PollInterval)

SpecRestart == Init /\ [][NextRestart]_vars

\* One patient and one monitor, time passing in steps of 10 s and 50 s
NextIdle ==
  \/ Handler("h1", {"A"})
  \/ Monitor("m1")
  \/ Send("m1", FALSE)
  \/ \E o \in Outcomes : Respond("m1", o)
  \/ Tick(10)
  \/ Tick(50)

SpecIdle == Init /\ [][NextIdle]_vars

\* The retry scenario: the files of one patient arrive and are handled,
\* then the monitor runs against an endpoint that rejects the first upload
\* request and accepts the second
Scripted(p, o) ==
  /\ attempts[p] = 1 => ~RemoteAccepts(o)
  /\ attempts[p] = 2 => RemoteAccepts(o)

Quiet == attempts["A"] = 0 /\ mon["m1"].pc = "sleep"

NextRetry ==
  \/ Quiet /\ HandleStore("h1", "A")
  \/ Quiet /\ InsertProc("h1")
  \/ Quiet /\ InitialPercentage("h1")
  \/ Quiet /\ DirCheck("h1")
  \/ Quiet /\ MakeDirs("h1")
  \/ Quiet /\ AppendWrite("h1")
  \/ Quiet /\ AppendError("h1")
  \/ Quiet /\ Track("h1")
  \/ Quiet /\ SessionUpsert("h1")
  \/ hs["h1"].pc = "idle" /\ Scan("m1")
  \/ Loop("m1")
  \/ UploadCheck("m1")
  \/ StatusUploading("m1")
  \/ PercentageUploading("m1")
  \/ Send("m1", TRUE)
  \/ \E o \in Outcomes : Scripted("A", o) /\ Respond("m1", o)
  \/ StatusUploaded("m1")
  \/ PercentageUploaded("m1")
  \/ Cleanup("m1")
  \/ FailedStatus("m1")
  \/ FailedPercentage("m1")
  \/ Tick(PollInterval)

SpecRetry == Init /\ [][NextRetry]_vars

\* Arrivals and monitor scans one after another: a request is handled while
\* the monitor sleeps, a scan runs while no request is being handled
Asleep == mon["m1"].pc = "sleep"

HandlersIdle == hs["h1"].pc = "idle"

NextSequential ==
  \/ \E p \in Patients : Asleep /\ HandleStore("h1", p)
  \/ InsertProc("h1")
  \/ InitialPercentage("h1")
  \/ DirCheck("h1")
  \/ MakeDirs("h1")
  \/ AppendWrite("h1")
  \/ AppendError("h1")
  \/ Track("h1")
  \/ SessionUpsert("h1")
  \/ HandlersIdle /\ Scan("m1")
  \/ Loop("m1")
  \/ UploadCheck("m1")
  \/ StatusUploading("m1")
  \/ PercentageUploading("m1")
  \/ Send("m1", FALSE)
  \/ \E o \in Outcomes : Respond("m1", o)
  \/ StatusUploaded("m1")
  \/ PercentageUploaded("m1")
  \/ Cleanup("m1")
  \/ FailedStatus("m1")
  \/ FailedPercentage("m1")
  \/ Tick(PollInterval)

SpecSequential == Init /\ [][NextSequential]_vars

\* Two associations at once: handler thread h1 receives the files of patient
\* A and h2 those of patient B; no I/O error from the environment and no
\* monitor scan
PatientOf(h) == IF h = "h1" THEN "A" ELSE "B"

NextConcurrent ==
  \E h \in HandlerIds :
    \/ HandleStore(h, PatientOf(h))
    \/ InsertProc(h)
    \/ InitialPercentage(h)
    \/ DirCheck(h)
    \/ MakeDirs(h)
    \/ AppendWrite(h)
    \/ Track(h)
    \/ SessionUpsert(h)

SpecConcurrent == Init /\ [][NextConcurrent]_vars

\* The pipeline until the application is closed
NextShutdown ==
  \/ Handler("h1", {"A"})
  \/ Monitor("m1")
  \/ Send("m1", FALSE)
  \/ \E o \in Outcomes : Respond("m1", o)
  \/ Tick(PollInterval)
  \/ ProcessExit

SpecShutdown == Init /\ [][NextShutdown]_vars

\* The pipeline with a status store that can fail, while up to
\* MaxFaultyFiles files arrive
NextFaulty ==
  \/ \E p \in Patients : nextFile <= MaxFaultyFiles /\ HandleStore("h1", p)
  \/ InsertProc("h1")
  \/ InitialPercentage("h1")
  \/ DirCheck("h1")
  \/ MakeDirs("h1")
  \/ AppendWrite("h1")
  \/ AppendError("h1")
  \/ Track("h1")
  \/ SessionUpsert("h1")
  \/ Monitor("m1")
  \/ Send("m1", FALSE)
  \/ \E o \in Outcomes : Respond("m1", o)
  \/ StoreError("m1")
  \/ CleanupError("m1")
  \/ LogError("m1")
  \/ Tick(PollInterval)

SpecFaulty == Init /\ [][NextFaulty]_vars

\* The same with the monitor thread being scheduled, every request ending
\* (requests.post has a timeout) and time passing; store errors and
\* arrivals may or may not happen
MonitorStep ==
  \/ Monitor("m1")
  \/ Send("m1", FALSE)
  \/ \E o \in Outcomes : Respond("m1", o)
  \/ LogError("m1")

SpecFaultyFair ==
  /\ Init
  /\ [][NextFaulty]_vars
  /\ WF_vars(MonitorStep)
  /\ WF_vars(Tick(PollInterval))

\* The store functions on their own: radiolink.db holds the rows earlier
\* runs left (create_db keeps an existing table), the registry is empty, and
\* a thread calls update_proc_status or update_proc_uploading_percentage
\* for some patient id
Statuses == {"pending", "uploading", "uploaded"}

Percentages == {0, PctUploading, PctUploaded}

PersistedRows ==
  {NoRow} \cup [images : 1..MaxFiles, status : Statuses, pct : Percentages]

InitStore ==
  /\ procs \in [Patients -> PersistedRows]
  /\ patient_queue = <<>>
  /\ patient_zip_files = <<>>
  /\ zip_disk = [p \in Patients |-> NoFile]
  /\ zip_dir = FALSE
  /\ dicom_files = {}
  /\ nextFile = 1
  /\ hs = [h \in HandlerIds |-> IdleHandler]
  /\ mon = [m \in MonitorIds |-> OffMonitor]
  /\ accepted = {}
  /\ duplicated = {}
  /\ appended = {}
  /\ arrived = [f \in Files |-> "none"]
  /\ attempts = [p \in Patients |-> 0]

StatusCall(h, p, s) ==
  /\ procs' = update_proc_status(procs, p, s)
  /\ hs' = [hs EXCEPT ![h].pid = p, ![h].ret = "status"]
  /\ UNCHANGED <<patient_queue, patient_zip_files, zip_disk, zip_dir,
                 dicom_files, nextFile, mon, accepted, duplicated, appended,
                 arrived, attempts>>

PercentageCall(h, p, k) ==
  /\ procs' = update_proc_uploading_percentage(procs, p, k)
  /\ hs' = [hs EXCEPT ![h].pid = p, ![h].ret = "percentage"]
  /\ UNCHANGED <<patient_queue, patient_zip_files, zip_disk, zip_dir,
                 dicom_files, nextFile, mon, accepted, duplicated, appended,
                 arrived, attempts>>

NextStore ==
  \/ \E p \in Patients, s \in Statuses : StatusCall("h1", p, s)
  \/ \E p \in Patients, k \in Percentages : PercentageCall("h1", p, k)

SpecStore == InitStore /\ [][NextStore]_vars

\* An endpoint that never lets an upload succeed: every request ends with
\* an outcome for which send_to_server returns False.  Files of one patient
\* arrive; a handler that has started runs to its end, the monitor thread is
\* scheduled and time passes.  Requests are counted up to MaxAttempts.
Failing == {o \in Outcomes : ~send_to_server(o)}

HandlerProgress ==
  \/ InsertProc("h1")
  \/ InitialPercentage("h1")
  \/ DirCheck("h1")
  \/ MakeDirs("h1")
  \/ AppendWrite("h1")
  \/ AppendError("h1")
  \/ Track("h1")
  \/ SessionUpsert("h1")

RejectedStep ==
  \/ Scan("m1")
  \/ Loop("m1")
  \/ UploadCheck("m1")
  \/ StatusUploading("m1")
  \/ PercentageUploading("m1")
  \/ Send("m1", attempts[mon["m1"].pid] < MaxAttempts)
  \/ \E o \in Failing : Respond("m1", o)
  \/ FailedStatus("m1")
  \/ FailedPercentage("m1")

NextRejecting ==
  \/ HandleStore("h1", "A")
  \/ HandlerProgress
  \/ RejectedStep
  \/ Tick(PollInterval)

SpecRejecting ==
  /\ Init
  /\ [][NextRejecting]_vars
  /\ WF_vars(HandlerProgress)
  /\ WF_vars(RejectedStep)
  /\ WF_vars(Tick(PollInterval))

\* A slow upload: the request of a dispatch never returns.  Files of both
\* patients arrive without I/O errors, and a handler that has started is
\* scheduled; nothing is assumed about the monitor thread.
HandlerRuns ==
  \/ InsertProc("h1")
  \/ InitialPercentage("h1")
  \/ DirCheck("h1")
  \/ MakeDirs("h1")
  \/ AppendWrite("h1")
  \/ Track("h1")
  \/ SessionUpsert("h1")

NextSlowUpload ==
  \/ \E p \in Patients : HandleStore("h1", p)
  \/ HandlerRuns
  \/ Scan("m1")
  \/ Loop("m1")
  \/ UploadCheck("m1")
  \/ StatusUploading("m1")
  \/ PercentageUploading("m1")
  \/ Send("m1", FALSE)
  \/ Tick(PollInterval)

SpecSlowUpload == Init /\ [][NextSlowUpload]_vars /\ WF_vars(HandlerRuns)

\* An endpoint that accepts every upload with status 200: files of patient
\* "A" arrive without I/O errors, and the handler thread, the monitor
\* thread and the clock are all scheduled.
AcceptedStep ==
  \/ Scan("m1")
  \/ Loop("m1")
  \/ UploadCheck("m1")
  \/ StatusUploading("m1")
  \/ PercentageUploading("m1")
  \/ Send("m1", FALSE)
  \/ Respond("m1", [kind |-> "response", code |-> HttpOk])
  \/ StatusUploaded("m1")
  \/ PercentageUploaded("m1")
  \/ Cleanup("m1")
  \/ ErrorStatus("m1")
  \/ ErrorPercentage("m1")

NextAccepting ==
  \/ HandleStore("h1", "A")
  \/ HandlerRuns
  \/ AcceptedStep
  \/ Tick(PollInterval)

SpecAccepting ==
  /\ Init
  /\ [][NextAccepting]_vars
  /\ WF_vars(HandlerRuns)
  /\ WF_vars(AcceptedStep)
  /\ WF_vars(Tick(PollInterval))

\* Arrivals with any PatientID and PatientName, empty ones included, on one
\* handler thread, with the monitor running.
NextAnyArrival ==
  \/ /\ nextFile <= MaxCheckedFiles
     /\ \E p \in PatientIds, n \in PatientNames : HandleStoreAny("h1", p, n)
  \/ InsertProcChecked("h1")
  \/ InitialPercentage("h1")
  \/ DirCheck("h1")
  \/ MakeDirs("h1")
  \/ AppendWrite("h1")
  \/ AppendError("h1")
  \/ Track("h1")
  \/ SessionUpsert("h1")
  \/ Monitor("m1")
  \/ Send("m1", FALSE)
  \/ \E o \in Outcomes : Respond("m1", o)
  \/ Tick(PollInterval)

SpecAnyArrival == Init /\ [][NextAnyArrival]_vars

\* Overlapping arrivals for one patient: two handler threads (two
\* associations) receive files of patient "A" and interleave at every
\* statement; no I/O error and no monitor step.
OverlapStep(h) ==
  \/ HandleStore(h, "A")
  \/ SelectProc(h)
  \/ WriteProc(h)
  \/ InitialPercentage(h)
  \/ DirCheck(h)
  \/ MakeDirs(h)
  \/ ZipOpen(h)
  \/ ZipClose(h)
  \/ Track(h)
  \/ SessionLookup(h)
  \/ SessionAppend(h)
  \/ SessionRead(h)
  \/ SessionStore(h)

NextOverlap == \E h \in HandlerIds : OverlapStep(h)

SpecOverlap == Init /\ [][NextOverlap]_vars


\* ============================================================ claims
\* the archive of patient p holds file f
InArchive(f) == \E p \in Patients : zip_disk[p] # NoFile /\ f \in zip_disk[p]

\* a dispatch of monitor m has passed the existence check and has not returned
InFlight(m) ==
  mon[m].pc \in {"status_uploading", "pct_uploading", "send", "wait",
                 "status_uploaded", "pct_uploaded", "cleanup", "failed_status",
                 "failed_pct", "error_status", "error_pct"}

\* monitor m returns from upload_patient_data in this step
DispatchEnds(m) ==
  /\ mon[m].pc \in {"cleanup", "failed_pct", "error_pct"}
  /\ mon'[m].pc = "loop"

FilesOf(p) == {f \in Files : arrived[f] = p}

SessionImages(p) == {patient_queue[i].images : i \in SessionIdx(patient_queue, p)}

\* C1: no accumulated file is lost: every file that was appended to an
\* archive is still in the archive or was part of an upload the endpoint
\* accepted, also when it is appended between the request and the clean up.
C1_NoFileLost == \A f \in appended : InArchive(f) \/ f \in accepted

\* C2: at most one upload in flight per patient: for each patient at most
\* one dispatch has passed the existence check and not yet finished, for
\* every number of monitor threads the restarts have started.
C2_AtMostOneInFlight ==
  \A p \in Patients :
    Cardinality({m \in MonitorIds : InFlight(m) /\ mon[m].pid = p}) <= 1

\* C3: whenever upload_patient_data starts for a patient, the time since
\* that patient's current last_update in patient_zip_files is at least the
\* threshold, also for a file that arrived after the scan's snapshot.
C3_DispatchedOnlyWhenIdle ==
  [][\A m \in MonitorIds :
       (mon[m].pc = "loop" /\ mon'[m].pc = "upload"
          /\ HasZip(patient_zip_files, mon'[m].pid))
         => ZipAge(patient_zip_files, mon'[m].pid) >= Threshold]_vars

\* the loop of monitor m takes the next entry of its snapshot in this step
LoopTurn(m) ==
  /\ mon[m].pc = "loop"
  /\ mon[m].todo # <<>>
  /\ mon'[m].todo = Tail(mon[m].todo)

Dispatched(m) == mon'[m].pc = "upload" /\ mon'[m].pid = Head(mon[m].todo).patient_id

\* C4 as claimed: the scan selects exactly the patients whose
\* current_time - last_update is at least the threshold (inclusive).
C4_SelectsAtThreshold ==
  [][\A m \in MonitorIds :
       LoopTurn(m) => (Dispatched(m) <=> Head(mon[m].todo).age >= Threshold)]_vars

\* C4 amended: the scan dispatches exactly the patients of its snapshot whose
\* current_time - last_update is strictly greater than the threshold; a
\* patient idle for exactly 60 s is not selected.
C4_SelectsAboveThreshold ==
  [][\A m \in MonitorIds :
       LoopTurn(m) => (Dispatched(m) <=> Head(mon[m].todo).age > Threshold)]_vars

\* C4 witness: the loop reaches a patient idle for exactly the threshold
C4_Witness ==
  \E m \in MonitorIds :
    /\ mon[m].pc = "loop"
    /\ mon[m].todo # <<>>
    /\ Head(mon[m].todo).age = Threshold

\* C5: when the upload of a patient fails (the endpoint did not accept it,
\* or a local exception), the dispatch ends with the record at pending/0,
\* the session in patient_queue, the entry in patient_zip_files and the
\* archive with the contents that were sent.
C5_FailedDispatchKeepsState ==
  [][\A m \in MonitorIds :
       (DispatchEnds(m) /\ ~mon[m].acc)
         => LET p == mon[m].pid IN
            /\ procs'[p].status = "pending"
            /\ procs'[p].pct = 0
            /\ RefIdx(patient_queue', mon[m].ref) # {}
            /\ HasZip(patient_zip_files', p)
            /\ mon[m].sent # {} =>
                 (zip_disk'[p] # NoFile /\ mon[m].sent \subseteq zip_disk'[p])]_vars

\* C6: the endpoint rejects the first upload and accepts the second: two
\* upload requests are made in total, and once the second dispatch has
\* ended the record is uploaded/100 and stays so.
C6_TwoAttemptsThenUploaded ==
  /\ attempts["A"] <= 2
  /\ (attempts["A"] = 2 /\ mon["m1"].pc \in {"sleep", "loop"})
       => (procs["A"].status = "uploaded" /\ procs["A"].pct = PctUploaded)

\* C7: after a dispatch ends with the endpoint having accepted the upload,
\* the patient id is absent from patient_queue and from patient_zip_files.
C7_AcceptedDispatchRemoves ==
  [][\A m \in MonitorIds :
       (DispatchEnds(m) /\ mon[m].acc)
         => /\ ~HasSession(patient_queue', mon[m].pid)
            /\ ~HasZip(patient_zip_files', mon[m].pid)]_vars

\* the files that arrived for patient p since its session was created
SequenceOf(p) ==
  {f \in FilesOf(p) : f >= patient_queue[FirstIdx(patient_queue, p)].oid}

Counted(p, n) ==
  /\ procs[p].images = n
  /\ SessionImages(p) = {n}
  /\ Cardinality(SessionIdx(patient_queue, p)) = 1
  /\ zip_disk[p] = SequenceOf(p)

ArchiveSize(p) == IF zip_disk[p] = NoFile THEN 0 ELSE Cardinality(zip_disk[p])

C9_CountsMatchArchive ==
  (\A h \in HandlerIds : hs[h].pc = "idle")
    => \A p \in Patients :
         FilesOf(p) # {}
           => /\ procs[p].images = ArchiveSize(p)
              /\ SessionImages(p) = {ArchiveSize(p)}

\* C10: whenever the arriving file was not appended to the archive,
\* handle_store returns the failure status 0xA702.
C10_AppendFailureAcknowledged ==
  \A h \in HandlerIds :
    (hs[h].pc = "idle" /\ hs[h].file # 0 /\ hs[h].file \notin appended)
      => hs[h].ret = StatusFailure

\* handler h leaves append_to_zip through its except branch in this step
AppendFails(h) ==
  /\ hs[h].pc \in {"makedirs", "append_to_zip"}
  /\ hs'[h].pc = "session"
  /\ hs[h].file \notin appended'

\* C11: after an append failure the patient's record is pending with
\* percentage 0 and the source file is still on disk; a source file is
\* deleted only after it was written into the archive.
C11_AppendFailureKeepsPending ==
  [][/\ \A h \in HandlerIds :
          AppendFails(h)
            => /\ procs'[hs[h].pid].status = "pending"
               /\ procs'[hs[h].pid].pct = 0
               /\ hs[h].file \in dicom_files'
     /\ \A f \in Files :
          (arrived'[f] # "none" /\ f \notin dicom_files') => f \in appended']_vars

Together == {<<"pending", 0>>, <<"uploading", PctUploading>>,
             <<"uploaded", PctUploaded>>}

\* a thread is between the two store updates of a pair
BetweenUpdates ==
  \/ \E h \in HandlerIds : hs[h].pc = "percentage"
  \/ \E m \in MonitorIds :
       mon[m].pc \in {"pct_uploading", "pct_uploaded", "failed_pct", "error_pct"}

\* C12: status and percentage move together: each persisted record has
\* (status, uploading_percentage) in {(pending, 0), (uploading, 75),
\* (uploaded, 100)} in every reachable state, stated here for the states in
\* which no thread is between the two store updates of a pair.
C12_StatusAndPercentageTogether ==
  BetweenUpdates
    \/ \A p \in Patients :
         procs[p] # NoRow => <<procs[p].status, procs[p].pct>> \in Together

\* a dispatch of patient p has written uploaded and has not cleaned up yet
Completing(p) ==
  \E m \in MonitorIds :
    mon[m].pid = p /\ mon[m].pc \in {"pct_uploaded", "cleanup"}

\* C13: a persisted record with status uploaded implies that the patient has
\* no entry in patient_zip_files and no zip file on disk, also when a new
\* file arrives after an earlier upload of the patient has completed; stated
\* here for the states outside a dispatch's own step from uploaded to the
\* clean up.
C13_UploadedHasNoArchive ==
  \A p \in Patients :
    (procs[p].status = "uploaded" /\ ~Completing(p))
      => (~HasZip(patient_zip_files, p) /\ zip_disk[p] = NoFile)

Transitions == {<<"none", "pending">>, <<"pending", "uploading">>,
                <<"uploading", "uploaded">>, <<"uploading", "pending">>}

\* C14: the persisted status of a patient changes only from pending to
\* uploading, from uploading to uploaded and from uploading to pending (and
\* to pending when the record is created); uploaded is terminal.
C14_StatusTransitions ==
  [][\A p \in Patients :
       procs'[p].status # procs[p].status
         => <<procs[p].status, procs'[p].status>> \in Transitions]_vars

\* C15: no duplicate delivery: no file is contained in two uploads that the
\* endpoint accepted, for every interleaving of monitor ticks, dispatches and
\* server restarts.
C15_NoDuplicateDelivery == duplicated = {}

\* the request of monitor m ends in this step
RequestEnds(m) == mon[m].pc = "wait" /\ mon'[m].pc # "wait"

\* C16: upload success is a 2xx response: send_to_server returns True for
\* every response with a status code in 200..299 and False for every other
\* status code and for every transport error or timeout.
C16_SuccessIs2xx ==
  [][\A m \in MonitorIds :
       RequestEnds(m)
         => (mon'[m].pc = AfterSend(TRUE) <=> mon'[m].acc)]_vars

\* upload_patient_data is called by monitor m for a patient without a
\* session or without an entry in patient_zip_files
CalledForAbsent(m) ==
  /\ mon[m].pc = "upload"
  /\ \/ ~HasSession(patient_queue, mon[m].pid)
     \/ ~HasZip(patient_zip_files, mon[m].pid)

\* C17: a dispatch for an absent patient is a no-op: the call returns to the
\* loop without a request and leaves patient_queue, patient_zip_files, the
\* archive files and the persisted records as they are.
C17_AbsentDispatchIsNoOp ==
  [][\A m \in MonitorIds :
       (CalledForAbsent(m) /\ mon'[m].pc # mon[m].pc)
         => /\ mon'[m].pc = "loop"
            /\ attempts' = attempts /\ accepted' = accepted
            /\ patient_queue' = patient_queue
            /\ patient_zip_files' = patient_zip_files
            /\ zip_disk' = zip_disk
            /\ procs' = procs]_vars

\* C17 witness: a dispatch is called for a patient whose entry in
\* patient_zip_files is gone while a session of the patient exists
C17_Witness ==
  \E m \in MonitorIds :
    /\ CalledForAbsent(m)
    /\ HasSession(patient_queue, mon[m].pid)

\* C18: concurrent arrivals for two different patients do not interfere:
\* after all handlers have finished, each patient's archive contains exactly
\* the files that arrived for that patient, each patient has exactly one
\* session, and each persisted images count equals the patient's number of
\* arrivals.
C18_ArrivalsIndependent ==
  (\A h \in HandlerIds : hs[h].pc = "idle")
    => \A p \in Patients :
         FilesOf(p) # {}
           => /\ zip_disk[p] = FilesOf(p)
              /\ Cardinality(SessionIdx(patient_queue, p)) = 1
              /\ procs[p].images = Cardinality(FilesOf(p))

\* the session, the entry or the archive file of patient p goes in this step
Removed(p) ==
  \/ \E i \in SessionIdx(patient_queue, p) :
       RefIdx(patient_queue', patient_queue[i].oid) = {}
  \/ HasZip(patient_zip_files, p) /\ ~HasZip(patient_zip_files', p)
  \/ zip_disk[p] # NoFile /\ zip_disk'[p] = NoFile

\* C19: a session, its entry in patient_zip_files and its archive file are
\* removed only by the clean up of a dispatch of that patient whose upload
\* the endpoint accepted; no file arrival, failed dispatch or monitor scan
\* removes them.
C19_RemovedOnlyAfterAccept ==
  [][\A p \in Patients :
       Removed(p)
         => \E m \in MonitorIds :
              /\ mon[m].pc = "cleanup" /\ mon'[m].pc # "cleanup"
              /\ mon[m].pid = p
              /\ mon[m].acc
              /\ mon[m].sent \subseteq accepted]_vars

\* C19 witness: a dispatch whose upload was accepted has removed the
\* patient's session, entry and archive
C19_Witness ==
  \E m \in MonitorIds :
    /\ mon[m].pc = "loop" /\ mon[m].acc /\ mon[m].sent # {}
    /\ ~HasSession(patient_queue, mon[m].pid)
    /\ ~HasZip(patient_zip_files, mon[m].pid)
    /\ zip_disk[mon[m].pid] = NoFile

\* monitor m is stopped in this step between writing uploading/75 and
\* writing the outcome of the upload
Aborted(m) ==
  /\ mon[m].pc \in {"send", "wait"}
  /\ mon'[m].pc = "exited"

\* C20: an aborted dispatch never leaves the status stuck at uploading: when
\* the process ends while an upload for a patient is in flight, the
\* persisted status of that patient is pending afterwards.
C20_AbortedDispatchIsPending ==
  [][\A m \in MonitorIds :
       Aborted(m) => procs'[mon[m].pid].status = "pending"]_vars

\* the session, the archive and the record of patient p stay as they are
Untouched(p) ==
  /\ procs'[p] = procs[p]
  /\ zip_disk'[p] = zip_disk[p]
  /\ HasZip(patient_zip_files', p) = HasZip(patient_zip_files, p)
  /\ SessionImages(p)' = SessionImages(p)

\* C21: per-patient failures are isolated: when the scan found patients A
\* and B idle and the dispatch of A fails in any way, B is still dispatched
\* in the same scan, and no step of A's dispatch changes B's session,
\* archive or record.
C21_FailureIsolated ==
  [][\A m \in MonitorIds :
       (mon[m].pc \notin {"off", "sleep", "exited"} /\ mon'[m] # mon[m])
         => /\ \A p \in Patients \ {mon[m].pid} :
                 (InFlight(m) /\ hs' = hs) => Untouched(p)
            /\ (mon[m].todo # <<>> /\ Idle(Head(mon[m].todo)))
                 => mon'[m].pc # "sleep"]_vars

Appending(h, p) ==
  hs[h].pid = p /\ hs[h].pc \in {"makedirs", "append_to_zip", "track"}

\* C23: mutating operations on the registry and the archive map of one
\* patient are mutually exclusive: the dispatcher's session removal and
\* archive deletion never run while an arrival handler of that patient is
\* inside append_to_zip.
C23_MutuallyExclusive ==
  [][\A m \in MonitorIds :
       (mon[m].pc = "cleanup" /\ mon'[m].pc # "cleanup")
         => \A h \in HandlerIds : ~Appending(h, mon[m].pid)]_vars

\* C24: the monitor loop never ends because of one iteration's failure:
\* each time an error is raised out of an iteration of
\* check_patient_updates, the loop performs a further scan.
C24_LoopContinues == (mon["m1"].pc = "except") ~> (mon["m1"].pc = "loop")

\* C24 witness: an error has left the dispatch and reached the except
\* clause of the loop while a patient is still waiting in the snapshot
C24_Witness == mon["m1"].pc = "except" /\ mon["m1"].todo # <<>>

\* C25: unbounded retry: while the uploads of a patient keep failing, the
\* patient keeps being re-attempted: whenever it has an archive entry, an
\* upload request for it is made later on, however many have failed before.
C25_RetriedForever ==
  HasZip(patient_zip_files, "A") ~> (mon["m1"].pc = "wait" /\ mon["m1"].pid = "A")

\* C25 witness: after MaxAttempts - 1 failed requests a further request for
\* the patient is in flight
C25_Witness ==
  /\ attempts["A"] = MaxAttempts
  /\ mon["m1"].pc = "wait" /\ mon["m1"].pid = "A"

\* C26: the monitor polls on a fixed interval: a scan starts at least the
\* poll interval after the start of the scan before it, also when that scan
\* ended with an error.
C26_ScansApartByInterval ==
  [][\A m \in MonitorIds :
       (mon[m].pc = "sleep" /\ mon'[m].pc = "loop")
         => mon[m].since >= PollInterval]_vars

\* the upload of monitor m1 is in flight and the handler has received a
\* file of another patient
ArrivalDuringUpload ==
  /\ mon["m1"].pc = "wait"
  /\ hs["h1"].pc = "insert_proc"
  /\ hs["h1"].pid # mon["m1"].pid

\* the handler has returned success with the file counted, in the archive
\* and in a session, and the upload is still in flight
ArrivalDone ==
  /\ mon["m1"].pc = "wait"
  /\ hs["h1"].pc = "idle" /\ hs["h1"].ret = StatusSuccess
  /\ hs["h1"].pid # mon["m1"].pid
  /\ procs[hs["h1"].pid].images >= 1
  /\ hs["h1"].file \in zip_disk[hs["h1"].pid]
  /\ HasSession(patient_queue, hs["h1"].pid)

\* C27: a slow upload of one patient never blocks arrivals of other
\* patients: a file of another patient that arrives while the upload is in
\* flight is handled to completion while the upload is still in flight.
C27_ArrivalsNotBlocked == ArrivalDuringUpload ~> ArrivalDone

\* C27 witness: a file of patient B was handled to completion during the
\* upload of patient A
C27_Witness == ArrivalDone /\ mon["m1"].pid = "A" /\ hs["h1"].pid = "B"

\* monitor m returns from upload_patient_data in this step, normally or
\* with an error
Returns(m) == InFlight(m) /\ mon'[m].pc \in {"loop", "except"}

\* C28: a successful dispatch ends in one consistent state: whenever the
\* endpoint accepted the upload, the dispatch ends with the archive file
\* deleted and its entry removed, the session removed and the record at
\* uploaded/100.
C28_AcceptedEndsConsistent ==
  [][\A m \in MonitorIds :
       (Returns(m) /\ mon[m].acc)
         => LET p == mon[m].pid IN
            /\ zip_disk'[p] = NoFile
            /\ ~HasZip(patient_zip_files', p)
            /\ RefIdx(patient_queue', mon[m].ref) = {}
            /\ procs'[p].status = "uploaded"
            /\ procs'[p].pct = PctUploaded]_vars

\* C29: the registry holds at most one session per patient id in every
\* reachable state, also when two handlers for the same unknown patient
\* overlap.
C29_OneSessionPerPatient ==
  \A p \in Patients : Cardinality(SessionIdx(patient_queue, p)) <= 1

\* every handler is idle and N >= 1 files of patient "A" have arrived
AllReturned == nextFile > 1 /\ \A h \in HandlerIds : hs[h].pc = "idle"

\* C30: overlapping arrivals for one patient are all counted: once all
\* handlers of N arrivals have returned, each returned success, the
\* persisted count is N, the session's count is N and the archive holds all
\* N files.
C30_OverlappingArrivalsCounted ==
  AllReturned =>
    /\ \A h \in HandlerIds : hs[h].file = 0 \/ hs[h].ret = StatusSuccess
    /\ procs["A"] # NoRow
    /\ procs["A"].images = nextFile - 1
    /\ HasSession(patient_queue, "A")
    /\ patient_queue[FirstIdx(patient_queue, "A")].images = nextFile - 1
    /\ zip_disk["A"] = 1..(nextFile - 1)

\* the check_patient_updates threads that are running
LiveMonitors == {m \in MonitorIds : mon[m].pc \notin {"off", "exited"}}

\* C31: at most one monitor task is running at any time, for every sequence
\* of start_dicom_server and restart_dicom_server calls.
C31_AtMostOneMonitor == Cardinality(LiveMonitors) <= 1

\* patient p is uploaded and cleaned up
UploadedAndRemoved(p) ==
  /\ procs[p].status = "uploaded"
  /\ procs[p].pct = PctUploaded
  /\ ~HasSession(patient_queue, p)
  /\ ~HasZip(patient_zip_files, p)
  /\ zip_disk[p] = NoFile

\* C32: every received file is eventually uploaded: when arrivals stop, the
\* monitor keeps running and the endpoint accepts uploads, a patient with
\* received files eventually is at uploaded/100 with its session and
\* archive removed.
C32_EventuallyUploaded == (procs["A"] # NoRow) ~> UploadedAndRemoved("A")

\* no arrival handler is running and no monitor is in a scan or a dispatch
NothingInProgress ==
  /\ \A h \in HandlerIds : hs[h].pc \in {"idle", "exited"}
  /\ \A m \in MonitorIds : mon[m].pc \in {"off", "sleep", "exited"}

\* C33: registry and archive map stay consistent: when no handler and no
\* dispatch is in progress, a patient has a session if and only if it has an
\* entry in patient_zip_files, and every entry's archive file exists.
C33_RegistryMatchesArchives ==
  NothingInProgress =>
    \A p \in Patients :
      /\ HasSession(patient_queue, p) <=> HasZip(patient_zip_files, p)
      /\ HasZip(patient_zip_files, p) => zip_disk[p] # NoFile

\* handler h is at insert_proc with an empty patient id or patient name
EmptyIdOrName(h) ==
  hs[h].pc = "insert_proc" /\ (hs[h].pid = "" \/ hs[h].name = "")

\* C34: an arrival whose patient id or patient name is empty is rejected
\* without side effects: the handler returns 0xA702 from insert_proc's
\* check, and no record, session, archive entry or archive content is
\* created or changed.
C34_EmptyArrivalRejected ==
  [][\A h \in HandlerIds :
       (EmptyIdOrName(h) /\ hs'[h] # hs[h])
         => /\ hs'[h].pc = "idle"
            /\ hs'[h].ret = StatusFailure
            /\ procs' = procs
            /\ patient_queue' = patient_queue
            /\ patient_zip_files' = patient_zip_files
            /\ zip_disk' = zip_disk]_vars

\* C34 witness: an arrival with an empty patient name for a patient whose
\* record, session and archive exist has been rejected
C34_Witness ==
  /\ hs["h1"].file # 0
  /\ hs["h1"].pc = "idle"
  /\ hs["h1"].ret = StatusFailure
  /\ hs["h1"].pid = "A"
  /\ hs["h1"].name = ""
  /\ procs["A"] # NoRow
  /\ HasSession(patient_queue, "A")
  /\ zip_disk["A"] # NoFile

====
